---- MODULE Spec2Model ----
(***************************************************************************)
(* Model of charader's round logic (src/src/App.tsx): the App component's  *)
(* screen switch and startGame/endGame/resetGame, and the GameScreen       *)
(* component with its Countdown child, its fetch-more effect, its timer    *)
(* effect and handleResult.                                                *)
(*                                                                         *)
(* Execution model.  The program is a React application: every event (a    *)
(* click, a timer callback, the continuation of an awaited call) runs to   *)
(* completion against the state of the last committed render, React then   *)
(* commits the new state and runs the effects whose dependencies changed,  *)
(* and a state update made by an effect is committed before the next event *)
(* is handled.  One action below is one event together with the renders    *)
(* and effect runs it causes.  State updater functions run once per update *)
(* (production build; React's development-only StrictMode double           *)
(* invocation is not modelled).                                            *)
(*                                                                         *)
(* Encoding.  A prompt string is a positive integer; Undefined is the JS   *)
(* value read past the end of an array.  duration is kept in half minutes  *)
(* (the select offers 0.5, 1, 2, 3, 4, 5 minutes), so duration * 60 is     *)
(* halves * 30.  App's state variable gameState ("setup", "playing",       *)
(* "end") is called screen and App's results finalResults, because         *)
(* GameScreen has state of the same names.  gameConfig is <<>> for null    *)
(* and a one-element sequence otherwise.                                   *)
(***************************************************************************)
EXTENDS Integers, Sequences, FiniteSets, TLC

\* ------------------------------------------------------------------ bounds
MaxRounds == 2          \* rounds that may be started
MaxJudgments == 3       \* judgments followed in a round
MaxDepletion == 50      \* judgments followed while 50 prompts are depleted
MaxFetches == 1         \* replenishment completions per round
MaxBatch == 1           \* fresh prompts in one generator response
MaxShuffleLen == 3      \* length of the arrays shuffleArray is applied to
MaxElapsed == 4         \* time followed since the last tick, in units of 500 ms

\* -------------------------------------------------------- program constants
LowWater == 10          \* availablePrompts.length - currentPromptIndex <= 10
TargetTotal == 50       \* Math.ceil(50 / categories.length)
CountdownFrom == 3      \* useState(3) in Countdown
Undefined == 0          \* availablePrompts[i] for i >= length
EmptyLine == 0          \* a line removed by filter(Boolean)
RequestCount == 60      \* BASE_PROMPT.replace("{count}", "60")
TickPeriod == 2         \* setInterval(..., 1000), in units of 500 ms

VARIABLES
  screen,              \* App: gameState
  isLoading,           \* App: isLoading
  gameConfig,          \* App: gameConfig
  prompts,             \* App: prompts
  finalResults,        \* App: results
  timeLeft,            \* GameScreen: timeLeft
  currentPromptIndex,  \* GameScreen: currentPromptIndex
  results,             \* GameScreen: results
  gameState,           \* GameScreen: gameState
  showCountdown,       \* GameScreen: showCountdown
  count,               \* Countdown: count
  requests,            \* openai calls awaited by a fetchMorePrompts
  exclusionsSent,      \* exclusion list of the last call of this GameScreen
  requestSent,         \* count and category of the last call of this GameScreen
  round,               \* history: number of GameScreen mounts
  started,             \* history: fetchMorePrompts calls of this round
  completed,           \* history: fetchMorePrompts completions of this round
  failures,            \* history: fetchMorePrompts failures of this round
  ticks,               \* history: timer callbacks of this round
  lateDone,            \* history: completions of unmounted GameScreens'
                       \* requests since the last mount
  emitted,             \* history: onGameEnd calls of this round
  accepted,            \* history: judgments made on a displayed prompt
  genHonest,           \* history: no response of this round repeated a string
  selectedCategories,  \* GameSetup: selectedCategories
  customCategory,      \* GameSetup: customCategory
  online,              \* navigator.onLine
  startGameCall,       \* the run of startGame: its locals while it awaits
                       \* the generator, and the history of its calls
  shuffleCall,         \* a call of shuffleArray: its argument, the random
                       \* draws, the array passed in and the array returned
  intervalAge,         \* time since the timer effect's interval was created
                       \* or last fired, in units of 500 ms
  sinceTick            \* history: time since the clock started or last
                       \* ticked, in units of 500 ms

vars == <<screen, isLoading, gameConfig, prompts, finalResults, timeLeft,
          currentPromptIndex, results, gameState, showCountdown, count,
          requests, exclusionsSent, requestSent, round, started, completed,
          failures,
          ticks, lateDone, emitted, accepted, genHonest, selectedCategories,
          customCategory, online, startGameCall, shuffleCall, intervalAge,
          sinceTick>>

timerVars == <<intervalAge, sinceTick>>
setupVars == <<selectedCategories, customCategory, online, startGameCall>>
appVars == <<screen, isLoading, gameConfig, prompts, finalResults>>
histVars == <<round, started, completed, failures, ticks, lateDone, emitted,
             accepted, genHonest>>

\* ----------------------------------------------------------------- helpers
Range(s) == {s[i] : i \in 1..Len(s)}

RemoveAt(s, i) == SubSeq(s, 1, i - 1) \o SubSeq(s, i + 1, Len(s))

UpTo(n) == [i \in 1..n |-> i]

\* shuffleArray: Fisher-Yates from the last index down; draws[i] is the index
\* Math.floor(Math.random() * (i + 1)) picks for position i (1-based here).
Swap(s, i, j) == [s EXCEPT ![i] = s[j], ![j] = s[i]]

\* The loop's iterations for i = hi, hi - 1, ..., lo + 1, in that order.  The
\* range is halved, and the first half's result is taken as a value before
\* the second half starts, so that long lists are evaluated at a small depth.
RECURSIVE ShuffleDown(_, _, _, _)
ShuffleDown(s, hi, lo, draws) ==
  IF hi <= lo THEN s
  ELSE IF hi = lo + 1 THEN Swap(s, hi, draws[hi])
  ELSE LET mid == (hi + lo) \div 2
           upper == ShuffleDown(s, hi, mid, draws)
       IN IF Len(upper) = Len(s)
          THEN ShuffleDown(upper, mid, lo, draws)
          ELSE upper

ShuffleFrom(s, i, draws) == ShuffleDown(s, i, 1, draws)

shuffleArray(array, draws) == ShuffleFrom(array, Len(array), draws)

\* Variant of Draws with j = Math.floor(Math.random() * array.length).
DrawsAnyIndex(n) == [2..n -> 1..n]

\* The sequences of draws of a call on n items: 0 <= j <= i.
Draws(n) == {d \in [2..n -> 1..n] : \A i \in 2..n : d[i] <= i}

Shuffles(s) == {shuffleArray(s, d) : d \in Draws(Len(s))}

\* content.split("\n") ... .filter(Boolean): the non-empty lines, in order.
ParseLines(lines) == SelectSeq(lines, LAMBDA l : l # EmptyLine)

\* ----------------------------------------------------- the category catalog
\* ALL_CATEGORIES of ./categories: the category ids in display order, with
\* the "all categories" entry "misc" and the free-text entry "custom".
ALL_CATEGORIES == <<"misc", "animals", "food", "movies", "custom">>

\* The size of a category's canned pool.
PoolSize(id) ==
  CASE id = "animals" -> 60
    [] id = "food" -> 50
    [] id = "movies" -> 20
    [] OTHER -> 0

CategoryIndex(id) ==
  CHOOSE i \in 1..Len(ALL_CATEGORIES) : ALL_CATEGORIES[i] = id

\* The k-th string of a category (of its pool, or of a generator response).
PromptOf(id, k) == CategoryIndex(id) * 100 + k

Pool(id) == [k \in 1..PoolSize(id) |-> PromptOf(id, k)]

\* The generation template of a catalog entry.
Template(id) == id

\* "Custom categories require internet connection"
OfflineNotice == PromptOf("custom", 0)

\* ------------------------------------------------------------ environment
\* The shortest duration the select offers (0.5 minutes), in half minutes.
DurationOptions == {1}

\* Lengths of the shuffled list startGame hands to GameScreen: nothing (a
\* custom category whose response has no line), the offline sentinel, a
\* list just above the low-water mark, and the target of 50.
InitLens == {0, 1, LowWater + 2, TargetTotal}

InitQueues == {UpTo(n) : n \in InitLens} \cup {<<1, 1>>}

\* A catalog entry as a Category object.
CatalogEntry(id) == [id |-> id, prompt |-> Template(id)]

\* The categories of a round that starts with the given list: two canned
\* categories for the target of 50 (25 sampled from each), and otherwise
\* the "custom" catalog entry followed by the entry made from the typed
\* text, whose generator responses or offline notices make up a short list.
CategoriesFor(shuffledPrompts) ==
  IF Len(shuffledPrompts) = TargetTotal
  THEN <<CatalogEntry("animals"), CatalogEntry("food")>>
  ELSE <<CatalogEntry("custom"), [id |-> "custom", prompt |-> "pirates"]>>

\* The number of judgments followed in a round: MaxJudgments, and
\* MaxDepletion in a first round that started with the target of 50 prompts,
\* for as long as no replenishment has completed.
JudgmentBound ==
  IF round = 1 /\ Len(prompts) = TargetTotal /\ completed = 0
  THEN MaxDepletion
  ELSE MaxJudgments

\* The correct flag of the judgment made after n judgments: either button
\* for the first judgment of a round, the "correct" button afterwards.
CorrectInputs(n) == IF n = 0 THEN BOOLEAN ELSE {TRUE}

\* Strings the generator has not produced in this round.
Fresh(gs, n) == [i \in 1..n |-> Len(gs.availablePrompts) + i]

\* Lines of a response the generator honours the exclusions in: no line, or
\* fresh strings, possibly after an empty line.
HonestResponses(gs) ==
  {<<>>} \cup {Fresh(gs, n) : n \in 1..MaxBatch}
         \cup {<<EmptyLine>> \o Fresh(gs, 1)}

\* Lines of a response that repeats a string already in the queue.
RepeatingResponses(gs) ==
  IF gs.availablePrompts = <<>> THEN {}
  ELSE {<<gs.availablePrompts[Len(gs.availablePrompts)]>>}

\* -------------------------------------------------- GameScreen: the effects
\* Variant of the condition that does not test isLoadingMore.
NeedMorePromptsNoFlag(idx, gs) ==
  Len(gs.availablePrompts) - idx <= LowWater

\* Variant of the condition with < in place of <=.
NeedMorePromptsStrict(idx, gs) ==
  /\ Len(gs.availablePrompts) - idx < LowWater
  /\ ~gs.isLoadingMore

\* The condition of the fetch-more effect.
NeedMorePrompts(idx, gs) ==
  /\ Len(gs.availablePrompts) - idx <= LowWater
  /\ ~gs.isLoadingMore

\* The effect's dependency list: category.prompt (fixed in a round),
\* currentPromptIndex, availablePrompts.length, isLoadingMore, usedPrompts
\* (an array that is replaced exactly when an item is appended).
DepsChanged(idx1, gs1, idx2, gs2) ==
  \/ idx1 # idx2
  \/ Len(gs1.availablePrompts) # Len(gs2.availablePrompts)
  \/ gs1.isLoadingMore # gs2.isLoadingMore
  \/ gs1.usedPrompts # gs2.usedPrompts

\* Variant of FetchEffect whose exclusion text is built from the usedPrompts
\* of the render before the last judgment.
FetchEffectStaleExclusions(ran, idx, st, epoch) ==
  IF ran /\ NeedMorePrompts(idx, st.gs)
  THEN [gs |-> [st.gs EXCEPT !.isLoadingMore = TRUE],
        category |-> st.category,
        requests |-> Append(st.requests, [epoch |-> epoch]),
        sent |-> [count |-> RequestCount, category |-> st.category.prompt],
        exclusions |-> SubSeq(st.gs.usedPrompts, 1,
                              Len(st.gs.usedPrompts) - 1),
        started |-> st.started + 1]
  ELSE st

\* One run of the fetch-more effect on a committed render: st is
\* [gs, category, requests, exclusions, sent, started].  fetchMorePrompts sets
\* isLoadingMore and issues the call for "60" items of category.prompt,
\* whose exclusion text is built from the render's usedPrompts; a request is
\* identified by the GameScreen that issued it.
FetchEffect(ran, idx, st, epoch) ==
  IF ran /\ NeedMorePrompts(idx, st.gs)
  THEN [gs |-> [st.gs EXCEPT !.isLoadingMore = TRUE],
        category |-> st.category,
        requests |-> Append(st.requests, [epoch |-> epoch]),
        sent |-> [count |-> RequestCount, category |-> st.category.prompt],
        exclusions |-> st.gs.usedPrompts,
        started |-> st.started + 1]
  ELSE st

\* The renders that follow an event: the effect runs if the render is the
\* mount or its dependencies changed, and once more after the render caused
\* by its own setGameState.
AfterRender(mounting, oldIdx, oldGs, idx, st, epoch) ==
  LET s1 == FetchEffect(mounting \/ DepsChanged(oldIdx, oldGs, idx, st.gs),
                        idx, st, epoch)
  IN FetchEffect(DepsChanged(idx, st.gs, idx, s1.gs), idx, s1, epoch)

\* ---------------------------------------------------------------- screens
Mounted == screen = "playing"

Phase ==
  CASE screen = "setup" -> "Setup"
    [] screen = "end" -> "Ended"
    [] screen = "playing" /\ showCountdown -> "Countdown"
    [] OTHER -> "Running"

\* Requests issued by the mounted GameScreen that have not completed.
InFlight == Len(SelectSeq(requests, LAMBDA r : Mounted /\ r.epoch = round))

Remainder == Len(gameState.availablePrompts) - currentPromptIndex

Exhausted == currentPromptIndex >= Len(gameState.availablePrompts)

\* The category prop of the mounted GameScreen: gameConfig.categories[0].
ActiveCategory == gameConfig[1].categories[1]

\* No call of the generator has been made by the GameScreen.
NoRequest == [count |-> 0, category |-> ""]

\* startGame has not been called.
NoCall ==
  [running |-> FALSE, duration |-> 0, categories |-> <<>>,
   promptsPerCategory |-> 0, next |-> 0, allPrompts |-> <<>>,
   asked |-> <<>>, threw |-> FALSE]

\* ------------------------------------------------------------------- Init
AppInit ==
  /\ screen = "setup"
  /\ isLoading = FALSE
  /\ gameConfig = <<>>
  /\ prompts = <<>>
  /\ finalResults = <<>>
  /\ timeLeft = 0
  /\ currentPromptIndex = 0
  /\ results = <<>>
  /\ gameState = [availablePrompts |-> <<>>, usedPrompts |-> <<>>,
                  isLoadingMore |-> FALSE]
  /\ showCountdown = TRUE
  /\ count = CountdownFrom
  /\ requests = <<>>
  /\ exclusionsSent = <<>>
  /\ requestSent = NoRequest
  /\ round = 0
  /\ started = 0
  /\ completed = 0
  /\ failures = 0
  /\ ticks = 0
  /\ lateDone = 0
  /\ emitted = 0
  /\ accepted = <<>>
  /\ genHonest = TRUE
  /\ selectedCategories = {"misc"}
  /\ customCategory = ""
  /\ online = TRUE
  /\ startGameCall = NoCall
  /\ intervalAge = 0
  /\ sinceTick = 0

\* shuffleArray has not been called.
NoShuffle ==
  [given |-> <<>>, draws |-> <<>>, array |-> <<>>, shuffled |-> <<>>,
   done |-> FALSE]

Init == AppInit /\ shuffleCall = NoShuffle

gameVars == <<timeLeft, currentPromptIndex, results, gameState, showCountdown,
              count>>

\* ------------------------------------------------------------ App: startGame
\* Start Game is enabled on the setup screen while isLoading is false.
StartGameBegin ==
  /\ screen = "setup"
  /\ ~isLoading
  /\ round < MaxRounds
  /\ isLoading' = TRUE
  /\ UNCHANGED <<screen, gameConfig, prompts, finalResults, gameVars, requests,
                 exclusionsSent, requestSent, histVars>>
  /\ UNCHANGED <<setupVars, shuffleCall, timerVars>>

\* setPrompts, setGameConfig, setGameState("playing") and, from the finally,
\* setIsLoading(false): App renders GameScreen, whose state is initialised
\* from the props (category is gameConfig.categories[0]) and whose effects
\* run on mount.
StartPlaying(duration, categories, shuffledPrompts) ==
  LET gs0 == [availablePrompts |-> shuffledPrompts, usedPrompts |-> <<>>,
              isLoadingMore |-> FALSE]
      st == AfterRender(TRUE, 0, gs0, 0,
                        [gs |-> gs0, category |-> categories[1],
                         requests |-> requests,
                         exclusions |-> <<>>, sent |-> NoRequest,
                         started |-> 0],
                        round + 1)
  IN /\ prompts' = shuffledPrompts
     /\ gameConfig' = <<[duration |-> duration, categories |-> categories]>>
     /\ screen' = "playing"
     /\ isLoading' = FALSE
     /\ timeLeft' = (duration * 60) \div 2
     /\ currentPromptIndex' = 0
     /\ results' = <<>>
     /\ gameState' = st.gs
     /\ showCountdown' = TRUE
     /\ count' = CountdownFrom
     /\ requests' = st.requests
     /\ exclusionsSent' = st.exclusions
     /\ requestSent' = st.sent
     /\ round' = round + 1
     /\ started' = st.started
     /\ completed' = 0
     /\ failures' = 0
     /\ ticks' = 0
     /\ lateDone' = 0
     /\ emitted' = 0
     /\ accepted' = <<>>
     /\ genHonest' = TRUE
     /\ UNCHANGED finalResults

\* startGame reaches setGameState("playing") after its awaited calls.
StartGameDone ==
  /\ screen = "setup"
  /\ isLoading
  /\ \E duration \in DurationOptions, shuffledPrompts \in InitQueues :
       StartPlaying(duration, CategoriesFor(shuffledPrompts), shuffledPrompts)
  /\ UNCHANGED <<setupVars, shuffleCall, timerVars>>

\* The generator call of a custom category throws: the catch logs, the
\* finally clears isLoading, the screen stays on setup.
StartGameFail ==
  /\ screen = "setup"
  /\ isLoading
  /\ isLoading' = FALSE
  /\ UNCHANGED <<screen, gameConfig, prompts, finalResults, gameVars, requests,
                 exclusionsSent, requestSent, histVars>>
  /\ UNCHANGED <<setupVars, shuffleCall, timerVars>>

\* ------------------------------------------------------ Countdown component
\* The timeout of the Countdown effect: count goes down by one; the effect
\* of the render with count 0 calls onComplete, which clears showCountdown.
CountdownTickStep ==
  /\ screen = "playing"
  /\ showCountdown
  /\ count > 0
  /\ count' = count - 1
  /\ showCountdown' = (count - 1 > 0)
  /\ UNCHANGED <<appVars, timeLeft, currentPromptIndex, results, gameState,
                 requests, exclusionsSent, requestSent, histVars>>
  /\ UNCHANGED <<setupVars, shuffleCall>>

\* The same with time left out of account.
CountdownTick == CountdownTickStep /\ UNCHANGED timerVars

\* ------------------------------------------------- GameScreen: handleResult
\* Variant of NextIndex without the hold check.
NextIndexNoHold(idx, gs) == idx + 1

\* Variant of NextIndex that advances by two.
NextIndexSkip(idx, gs) ==
  IF idx >= Len(gs.availablePrompts) - 1 /\ gs.isLoadingMore
  THEN idx
  ELSE idx + 2

\* The cursor after a judgment: it holds when the judged prompt is the last
\* one (or there is none) and a replenishment is loading.
NextIndex(idx, gs) ==
  IF idx >= Len(gs.availablePrompts) - 1 /\ gs.isLoadingMore
  THEN idx
  ELSE idx + 1

\* Variant of AppendUsed that leaves out a prompt that is already listed.
AppendUsedOnce(prev, currentPrompt) ==
  IF currentPrompt \in Range(prev) THEN prev ELSE Append(prev, currentPrompt)

\* [...prev.usedPrompts, currentPrompt]
AppendUsed(prev, currentPrompt) == Append(prev, currentPrompt)

\* Variant of JudgmentEnabled without the countdown gate.
JudgmentEnabledAlways == screen = "playing"

\* The two full-height buttons are rendered (and enabled) whenever the
\* countdown gate has been passed, also under the loading indicator.
JudgmentEnabled == screen = "playing" /\ ~showCountdown

\* handleResult and the renders it causes, the timer effect aside.
HandleResultStep ==
  /\ JudgmentEnabled
  /\ Len(results) < JudgmentBound
  /\ \E correct \in CorrectInputs(Len(results)) :
       LET idx == currentPromptIndex
           currentPrompt ==
             IF idx < Len(gameState.availablePrompts)
             THEN gameState.availablePrompts[idx + 1]
             ELSE Undefined
           gs1 == [gameState EXCEPT
                     !.usedPrompts = AppendUsed(@, currentPrompt)]
           idx1 == NextIndex(idx, gameState)
           st == AfterRender(FALSE, idx, gameState, idx1,
                             [gs |-> gs1, category |-> ActiveCategory,
                              requests |-> requests,
                              exclusions |-> exclusionsSent,
                              sent |-> requestSent,
                              started |-> started],
                             round)
       IN /\ results' = Append(results,
                               [prompt |-> currentPrompt, correct |-> correct])
          /\ currentPromptIndex' = idx1
          /\ gameState' = st.gs
          /\ requests' = st.requests
          /\ exclusionsSent' = st.exclusions
          /\ requestSent' = st.sent
          /\ started' = st.started
          /\ accepted' = IF ~Exhausted
                         THEN Append(accepted, [prompt |-> currentPrompt,
                                                correct |-> correct])
                         ELSE accepted
  /\ UNCHANGED <<appVars, timeLeft, showCountdown, count, round, completed,
                 failures, ticks, lateDone, emitted, genHonest>>
  /\ UNCHANGED <<setupVars, shuffleCall>>

\* The same with time left out of account.
HandleResult == HandleResultStep /\ UNCHANGED timerVars

\* ------------------------------------------------- GameScreen: timer effect
\* Variant of TimerTick whose callback does not call onGameEnd.
TimerTickNoEnd ==
  /\ screen = "playing"
  /\ ~showCountdown
  /\ timeLeft' = IF timeLeft <= 1 THEN 0 ELSE timeLeft - 1
  /\ ticks' = ticks + 1
  /\ UNCHANGED <<appVars, currentPromptIndex, results, gameState,
                 showCountdown, count, requests, exclusionsSent,
                 requestSent, round,
                 started, completed, failures, lateDone, emitted, accepted,
                 genHonest>>
  /\ UNCHANGED <<setupVars, shuffleCall, timerVars>>

\* Variant of TimerTick whose callback ends the round at prev <= 0.
TimerTickLate ==
  /\ screen = "playing"
  /\ ~showCountdown
  /\ IF timeLeft <= 0
     THEN /\ timeLeft' = 0
          /\ finalResults' = results
          /\ screen' = "end"
          /\ emitted' = emitted + 1
     ELSE /\ timeLeft' = timeLeft - 1
          /\ UNCHANGED <<finalResults, screen, emitted>>
  /\ ticks' = ticks + 1
  /\ UNCHANGED <<isLoading, gameConfig, prompts, currentPromptIndex, results,
                 gameState, showCountdown, count, requests, exclusionsSent,
                 requestSent,
                 round, started, completed, failures, lateDone, accepted,
                 genHonest>>
  /\ UNCHANGED <<setupVars, shuffleCall, timerVars>>

\* The interval exists once showCountdown is false.  Its callback, at
\* prev <= 1, clears the interval and calls onGameEnd(results) = App.endGame,
\* which unmounts GameScreen; the results in its closure are those of the
\* last render, because the effect is re-created whenever results changes.
TimerTickStep ==
  /\ screen = "playing"
  /\ ~showCountdown
  /\ IF timeLeft <= 1
     THEN /\ timeLeft' = 0
          /\ finalResults' = results
          /\ screen' = "end"
          /\ emitted' = emitted + 1
     ELSE /\ timeLeft' = timeLeft - 1
          /\ UNCHANGED <<finalResults, screen, emitted>>
  /\ ticks' = ticks + 1
  /\ UNCHANGED <<isLoading, gameConfig, prompts, currentPromptIndex, results,
                 gameState, showCountdown, count, requests, exclusionsSent,
                 requestSent,
                 round, started, completed, failures, lateDone, accepted,
                 genHonest>>
  /\ UNCHANGED <<setupVars, shuffleCall>>

\* The same with time left out of account.
TimerTick == TimerTickStep /\ UNCHANGED timerVars

\* ---------------------------------------- GameScreen: fetchMorePrompts ends
\* Variant of AppendPrompts that puts the new prompts first.
PrependPrompts(prev, newPrompts) == newPrompts \o prev

\* [...prev.availablePrompts, ...newPrompts]
AppendPrompts(prev, newPrompts) == prev \o newPrompts

\* Variant of Live that does not tell the GameScreens apart.
LiveAnyRound(i) == Mounted

\* The setGameState of the fetchMorePrompts that awaits request i belongs to
\* the GameScreen that issued it: it takes effect only while that GameScreen
\* is the mounted one.
Live(i) == Mounted /\ requests[i].epoch = round

\* The awaited call of request i returns; the response lines are parsed and
\* shuffled, then appended, and isLoadingMore is cleared.  A request of a
\* GameScreen that is no longer mounted updates nothing.
FetchDone ==
  /\ \E i \in 1..Len(requests) :
       LET rest == RemoveAt(requests, i)
       IN IF ~Live(i)
          THEN /\ requests' = rest
               /\ lateDone' = lateDone + 1
               /\ UNCHANGED <<appVars, gameVars, exclusionsSent,
                              requestSent, round, started,
                              completed, failures, ticks, emitted, accepted,
                              genHonest>>
          ELSE /\ completed < MaxFetches
               /\ \E lines \in HonestResponses(gameState)
                               \cup RepeatingResponses(gameState) :
                    \E newPrompts \in Shuffles(ParseLines(lines)) :
                      LET gs1 == [gameState EXCEPT
                                    !.availablePrompts =
                                      AppendPrompts(@, newPrompts),
                                    !.isLoadingMore = FALSE]
                          st == AfterRender(FALSE, currentPromptIndex, gameState,
                                            currentPromptIndex,
                                            [gs |-> gs1,
                                             category |-> ActiveCategory,
                                             requests |-> rest,
                                             exclusions |-> exclusionsSent,
                                             sent |-> requestSent,
                                             started |-> started],
                                            round)
                      IN /\ gameState' = st.gs
                         /\ requests' = st.requests
                         /\ exclusionsSent' = st.exclusions
                         /\ requestSent' = st.sent
                         /\ started' = st.started
                         /\ genHonest' =
                              (genHonest /\ lines \in HonestResponses(gameState))
               /\ completed' = completed + 1
               /\ UNCHANGED <<appVars, timeLeft, currentPromptIndex, results,
                              showCountdown, count, round, failures, ticks,
                              lateDone, emitted, accepted>>
  /\ UNCHANGED <<setupVars, shuffleCall, timerVars>>

\* Variant of FetchFail whose catch only logs.
FetchFailKeepsFlag ==
  /\ \E i \in 1..Len(requests) :
       /\ Live(i)
       /\ completed < MaxFetches
       /\ requests' = RemoveAt(requests, i)
       /\ completed' = completed + 1
       /\ failures' = failures + 1
       /\ UNCHANGED <<appVars, gameVars, exclusionsSent, requestSent, round,
                      started, ticks, lateDone, emitted, accepted, genHonest>>
  /\ UNCHANGED <<setupVars, shuffleCall, timerVars>>

\* The awaited call of request i throws: the catch logs and clears
\* isLoadingMore.
FetchFail ==
  /\ \E i \in 1..Len(requests) :
       LET rest == RemoveAt(requests, i)
       IN /\ Live(i)
          /\ completed < MaxFetches
          /\ LET gs1 == [gameState EXCEPT !.isLoadingMore = FALSE]
                 st == AfterRender(FALSE, currentPromptIndex, gameState,
                                   currentPromptIndex,
                                   [gs |-> gs1,
                                    category |-> ActiveCategory,
                                    requests |-> rest,
                                    exclusions |-> exclusionsSent,
                                    sent |-> requestSent,
                                    started |-> started],
                                   round)
             IN /\ gameState' = st.gs
                /\ requests' = st.requests
                /\ exclusionsSent' = st.exclusions
                /\ requestSent' = st.sent
                /\ started' = st.started
          /\ completed' = completed + 1
          /\ failures' = failures + 1
          /\ UNCHANGED <<appVars, timeLeft, currentPromptIndex, results,
                         showCountdown, count, round, ticks, lateDone, emitted,
                         accepted, genHonest>>
  /\ UNCHANGED <<setupVars, shuffleCall, timerVars>>

\* --------------------------------------------------------- App: resetGame
\* Play Again on the end screen.  App renders a new GameSetup; the
\* finished run of startGame is forgotten, and so is the state of the
\* GameScreen that was unmounted when the round ended.
ResetGame ==
  /\ screen = "end"
  /\ screen' = "setup"
  /\ gameConfig' = <<>>
  /\ prompts' = <<>>
  /\ finalResults' = <<>>
  /\ startGameCall' = NoCall
  /\ timeLeft' = 0
  /\ currentPromptIndex' = 0
  /\ results' = <<>>
  /\ gameState' = [availablePrompts |-> <<>>, usedPrompts |-> <<>>,
                   isLoadingMore |-> FALSE]
  /\ showCountdown' = TRUE
  /\ count' = CountdownFrom
  /\ exclusionsSent' = <<>>
  /\ requestSent' = NoRequest
  /\ UNCHANGED <<isLoading, requests, histVars>>
  /\ UNCHANGED <<selectedCategories, customCategory, online, shuffleCall,
                 timerVars>>

\* ------------------------------------------------------------------- Next
Next ==
  \/ StartGameBegin
  \/ StartGameDone
  \/ StartGameFail
  \/ CountdownTick
  \/ HandleResult
  \/ TimerTick
  \/ FetchDone
  \/ FetchFail
  \/ ResetGame

Spec == Init /\ [][Next]_vars

\* ============================================================ setup screen
\* Two ways Math.random may fall in a shuffle of n items: every draw picks
\* the position being filled (nothing moves), or every draw picks index 0.
DrawStyles == {"keep", "first"}

DrawsOf(style, n) == [i \in 2..n |-> IF style = "keep" THEN i ELSE 1]

Min(a, b) == IF a <= b THEN a ELSE b

\* Math.ceil(a / b) for positive integers.
Ceil(a, b) == (a + b - 1) \div b

\* getRandomOptionsForCategory of ./categories: the shuffled pool, truncated
\* to the number asked for (the whole pool when it is smaller).
getRandomOptionsForCategory(id, quota, style) ==
  LET pool == Pool(id)
      draws == DrawsOf(style, Len(pool))
      shuffled == shuffleArray(pool, draws)
  IN SubSeq(shuffled, 1, Min(quota, Len(shuffled)))

\* ------------------------------------------------------------- GameSetup
\* Variant of handleCategoryClick without the final "at least one" step.
handleCategoryClickMayEmpty(prev, categoryId, isCheckbox) ==
  IF categoryId = "misc" THEN {"misc"}
  ELSE IF isCheckbox
       THEN LET withoutMisc == prev \ {"misc"}
            IN IF categoryId \in withoutMisc
               THEN withoutMisc \ {categoryId}
               ELSE withoutMisc \cup {categoryId}
       ELSE {categoryId}

\* The updater of handleCategoryClick: the new selection.
handleCategoryClick(prev, categoryId, isCheckbox) ==
  LET newSelection ==
        IF categoryId = "misc" THEN {"misc"}
        ELSE IF isCheckbox
             THEN LET withoutMisc == prev \ {"misc"}
                  IN IF categoryId \in withoutMisc
                     THEN withoutMisc \ {categoryId}
                     ELSE withoutMisc \cup {categoryId}
             ELSE {categoryId}
  IN IF newSelection = {} THEN {categoryId} ELSE newSelection

\* A click on a category row (isCheckbox false) or on its checkbox, which
\* is disabled for the other categories while "misc" is selected.
CategoryClick ==
  /\ screen = "setup"
  /\ \E categoryId \in Range(ALL_CATEGORIES), isCheckbox \in BOOLEAN :
       /\ (isCheckbox /\ "misc" \in selectedCategories) => categoryId = "misc"
       /\ selectedCategories' =
            handleCategoryClick(selectedCategories, categoryId, isCheckbox)
  /\ UNCHANGED <<appVars, gameVars, requests, exclusionsSent,
                 requestSent, histVars,
                 customCategory, online, startGameCall, shuffleCall,
                 timerVars>>

\* Text typed into the custom-category input, which is rendered while
\* "custom" is selected and disabled while isLoading.
CustomCategoryInput ==
  /\ screen = "setup"
  /\ "custom" \in selectedCategories
  /\ ~isLoading
  /\ \E text \in {"", "pirates"} :
       /\ text # customCategory
       /\ customCategory' = text
  /\ UNCHANGED <<appVars, gameVars, requests, exclusionsSent,
                 requestSent, histVars,
                 selectedCategories, online, startGameCall, shuffleCall,
                 timerVars>>

\* The network comes or goes while the setup screen is shown.
NetworkChange ==
  /\ screen = "setup"
  /\ online' = ~online
  /\ UNCHANGED <<appVars, gameVars, requests, exclusionsSent,
                 requestSent, histVars,
                 selectedCategories, customCategory, startGameCall,
                 shuffleCall, timerVars>>

\* handleStartGame: the catalog entries that are selected, in catalog order,
\* and pushed after them an entry made from the typed text when "custom" is
\* selected.
SelectedCategoryObjects ==
  LET ids == SelectSeq(ALL_CATEGORIES, LAMBDA id : id \in selectedCategories)
      objects == [i \in 1..Len(ids) |->
                    [id |-> ids[i], prompt |-> Template(ids[i])]]
  IN IF "custom" \in selectedCategories /\ customCategory # ""
     THEN Append(objects, [id |-> "custom", prompt |-> customCategory])
     ELSE objects

\* --------------------------------------------------------- App: startGame
\* Math.ceil(50 / categories.length), taken from the categories passed in.
PromptsPerCategory(categories) == Ceil(TargetTotal, Len(categories))

\* The categories looped over: a lone "misc" is replaced by every catalog
\* entry except "custom" and "misc".
ExpandMisc(categories) ==
  IF Len(categories) = 1 /\ categories[1].id = "misc"
  THEN LET ids == SelectSeq(ALL_CATEGORIES,
                            LAMBDA id : id # "custom" /\ id # "misc")
       IN [i \in 1..Len(ids) |-> [id |-> ids[i], prompt |-> Template(ids[i])]]
  ELSE categories

\* Variant of SampleCategory without the isOnline test.
SampleCategoryAlwaysCalls(category, promptsPerCategory, isOnline, style) ==
  IF category.id = "custom"
  THEN [via |-> "generator", got |-> <<>>]
  ELSE [via |-> "pool",
        got |-> getRandomOptionsForCategory(category.id, promptsPerCategory,
                                            style)]

\* One pass of the loop body up to its await: a custom category offline
\* gives the notice, online it calls the generator and awaits; any other
\* category is sampled from its pool.
SampleCategory(category, promptsPerCategory, isOnline, style) ==
  IF category.id = "custom"
  THEN IF ~isOnline
       THEN [via |-> "sentinel", got |-> <<OfflineNotice>>]
       ELSE [via |-> "generator", got |-> <<>>]
  ELSE [via |-> "pool",
        got |-> getRandomOptionsForCategory(category.id, promptsPerCategory,
                                            style)]

\* The loop from category i on, up to the next awaited generator call
\* (next = its index) or to the end of the list (next = 0).
RECURSIVE RunLoop(_, _, _, _)
RunLoop(call, i, isOnline, style) ==
  IF i > Len(call.categories)
  THEN [call EXCEPT !.next = 0]
  ELSE LET category == call.categories[i]
           r == SampleCategory(category, call.promptsPerCategory, isOnline,
                               style)
           c1 == [call EXCEPT
                    !.asked = Append(@, [id |-> category.id,
                                         quota |-> call.promptsPerCategory,
                                         via |-> r.via,
                                         online |-> isOnline,
                                         got |-> r.got])]
       IN IF r.via = "generator"
          THEN [c1 EXCEPT !.next = i]
          ELSE RunLoop([c1 EXCEPT !.allPrompts = @ \o r.got], i + 1,
                       isOnline, style)

\* startGame after RunLoop: suspended at an await with isLoading set, or
\* through the loop, where the combined list is shuffled and the screen
\* switches to the round.  App then renders GameScreen in the place of
\* GameSetup, whose state is discarded: the next GameSetup starts from its
\* initial state.
Continue(call, style) ==
  IF call.next = 0
  THEN LET allPrompts == call.allPrompts
           draws == DrawsOf(style, Len(allPrompts))
           shuffledPrompts == shuffleArray(allPrompts, draws)
       IN /\ StartPlaying(call.duration, call.categories, shuffledPrompts)
          /\ startGameCall' = [call EXCEPT !.running = FALSE]
          /\ selectedCategories' = {"misc"}
          /\ customCategory' = ""
  ELSE /\ isLoading' = TRUE
       /\ startGameCall' = call
       /\ UNCHANGED <<screen, gameConfig, prompts, finalResults, gameVars,
                      requests, exclusionsSent, requestSent, histVars>>
       /\ UNCHANGED <<selectedCategories, customCategory>>

\* Variant of StartDisabled that does not test isLoading.
StartDisabledNotLoading ==
  "custom" \in selectedCategories /\ customCategory = ""

\* The Start Game button is disabled while isLoading and while "custom" is
\* selected with no text.
StartDisabled ==
  isLoading \/ ("custom" \in selectedCategories /\ customCategory = "")

\* A click on the Start Game button: handleStartGame calls startGame, which
\* runs up to its first await.
HandleStartGame ==
  /\ screen = "setup"
  /\ ~StartDisabled
  /\ round < MaxRounds
  /\ \E duration \in DurationOptions, style \in DrawStyles :
       LET categories == SelectedCategoryObjects
           call == [running |-> TRUE, duration |-> duration,
                    categories |-> ExpandMisc(categories),
                    promptsPerCategory |-> PromptsPerCategory(categories),
                    next |-> 0, allPrompts |-> <<>>, asked |-> <<>>,
                    threw |-> FALSE]
       IN \E after \in {RunLoop(call, 1, online, style)} :
            Continue(after, style)
  /\ UNCHANGED <<online, shuffleCall, timerVars>>

\* completion.choices[0].message.content of a generator response: null, or
\* lines, one of them empty.
GeneratorResponses ==
  {[isNull |-> TRUE, lines |-> <<>>],
   [isNull |-> FALSE,
    lines |-> <<PromptOf("custom", 1), EmptyLine, PromptOf("custom", 2)>>]}

\* content?.split("\n").map(...).filter(Boolean) || []
ParseContent(response) ==
  IF response.isNull THEN <<>> ELSE ParseLines(response.lines)

\* The awaited generator call of startGame returns: its lines are added and
\* the loop goes on.
GeneratorReturns ==
  /\ startGameCall.running
  /\ startGameCall.next > 0
  /\ \E response \in GeneratorResponses, style \in DrawStyles :
       LET categoryPrompts == ParseContent(response)
           call == [startGameCall EXCEPT
                      !.allPrompts = @ \o categoryPrompts,
                      !.asked = [@ EXCEPT ![Len(@)].got = categoryPrompts]]
       IN \E after \in {RunLoop(call, startGameCall.next + 1, online,
                                 style)} :
            Continue(after, style)
  /\ UNCHANGED <<online, shuffleCall, timerVars>>

\* The awaited generator call of startGame throws (no network route, an
\* error status, a response without choices): the catch around the whole
\* body logs it, and the finally clears isLoading.
GeneratorThrows ==
  /\ startGameCall.running
  /\ startGameCall.next > 0
  /\ isLoading' = FALSE
  /\ startGameCall' = [startGameCall EXCEPT
                         !.running = FALSE, !.next = 0, !.threw = TRUE]
  /\ UNCHANGED <<screen, gameConfig, prompts, finalResults, gameVars,
                 requests, exclusionsSent,
                 requestSent, histVars, selectedCategories,
                 customCategory, online, shuffleCall, timerVars>>

SetupNext ==
  \/ CategoryClick
  \/ CustomCategoryInput
  \/ NetworkChange
  \/ HandleStartGame
  \/ GeneratorReturns
  \/ GeneratorThrows

SetupSpec == Init /\ [][SetupNext]_vars

\* ============================================================ shuffleArray
\* The arrays shuffleArray is applied to: up to MaxShuffleLen items, repeats
\* allowed.
ShuffleItems == 1..MaxShuffleLen

ShuffleInputs ==
  UNION {[1..n -> ShuffleItems] : n \in 0..MaxShuffleLen}

\* Variant of ShuffleArrayCall that shuffles the array passed in.
ShuffleArrayInPlace(array, draws) ==
  [array |-> shuffleArray(array, draws),
   shuffled |-> shuffleArray(array, draws)]

\* A call shuffleArray(array): the loop works on the copy [...array], so
\* the caller's array is as before, and the copy is returned.
ShuffleArrayCall(array, draws) ==
  [array |-> array, shuffled |-> shuffleArray(array, draws)]

\* A call is about to be made with some array, and Math.random will give
\* some sequence of draws.
ShuffleInit ==
  /\ AppInit
  /\ shuffleCall \in
       UNION {{[given |-> a, draws |-> d, array |-> a, shuffled |-> <<>>,
                done |-> FALSE] : d \in Draws(Len(a))} : a \in ShuffleInputs}

ShuffleReturns ==
  /\ ~shuffleCall.done
  /\ LET r == ShuffleArrayCall(shuffleCall.array, shuffleCall.draws)
     IN shuffleCall' = [shuffleCall EXCEPT !.array = r.array,
                                           !.shuffled = r.shuffled,
                                           !.done = TRUE]
  /\ UNCHANGED <<appVars, gameVars, requests, exclusionsSent,
                 requestSent, histVars,
                 setupVars, timerVars>>

ShuffleSpec == ShuffleInit /\ [][ShuffleReturns]_vars

\* ================================================================= claims
NoRepeats(s) == \A i, j \in 1..Len(s) : i # j => s[i] # s[j]

PromptsOf(rs) == [i \in 1..Len(rs) |-> rs[i].prompt]

RealPrompts(s) == SelectSeq(s, LAMBDA x : x # Undefined)

\* The step mounts a GameScreen.
Mounting == ~Mounted /\ Mounted'

\* The step starts a fetchMorePrompts of the mounted GameScreen.
StartedNow ==
  \/ Mounting /\ started' >= 1
  \/ Mounted /\ Mounted' /\ started' > started

\* The step is a judgment (handleResult).
Consumed == Mounted /\ Len(results') = Len(results) + 1

\* The step is the completion of a request of the mounted GameScreen.
CompletedNow == Mounted /\ completed' = completed + 1

\* C1: in every reachable state of a round at most one replenishment request
\* of that round is outstanding, whatever the interleaving of judgments,
\* clock ticks and completions; a trigger check made while a request is in
\* flight starts none.
C1_AtMostOneInFlight == InFlight <= 1

\* C1 witness: trigger checks ran (two judgments under the low-water mark)
\* while the request started on mount was still outstanding.
C1_Witness ==
  /\ Mounted
  /\ InFlight = 1
  /\ started = 1
  /\ completed = 0
  /\ Len(results) >= 2
  /\ Remainder <= LowWater

\* The depletion scenario of C2: while the queue of a round that started
\* with more than 10 prompts is consumed and no request has completed, no
\* request has been started above the low-water mark and exactly one from
\* the consume that brings the remainder down to 10.
C2_Depletion ==
  (Mounted /\ Len(prompts) > LowWater /\ completed = 0)
    => started = (IF Remainder <= LowWater THEN 1 ELSE 0)

\* C2 (as stated): a request is started exactly when, after a consume, the
\* remainder is <= 10 and no request is in flight, and never while more than
\* 10 prompts remain; consuming 49 prompts of a 50-prompt queue while the
\* request stays outstanding starts exactly one request, at the consume that
\* first brings the remainder down to 10.
C2_OnlyAfterConsume ==
  /\ [][StartedNow <=>
          (Consumed /\ Remainder' <= LowWater /\ InFlight = 0)]_vars
  /\ []C2_Depletion

\* C2 (amended): a request is started exactly when a trigger check, run when
\* the GameScreen mounts, after a consume or after a completion, finds the
\* remainder <= 10 and no request in flight; never while more than 10 prompts
\* remain; and the depletion scenario as stated.
C2_Trigger ==
  /\ [][StartedNow <=>
          /\ Mounted'
          /\ Remainder' <= LowWater
          /\ \/ Mounting
             \/ CompletedNow
             \/ Consumed /\ InFlight = 0]_vars
  /\ []C2_Depletion

\* C2 witness: 49 prompts of a 50-prompt queue consumed with the one request
\* still outstanding.
C2_Witness ==
  /\ Mounted
  /\ Len(prompts) = TargetTotal
  /\ currentPromptIndex = Len(prompts) - 1
  /\ completed = 0
  /\ started = 1
  /\ InFlight = 1

\* C3: when a replenishment fails, the in-flight flag is cleared and no new
\* request is started automatically; the next one is started only by the
\* trigger check after the next consume.
C3_NoAutomaticRetry ==
  [][(Mounted /\ failures' = failures + 1)
       => (~gameState'.isLoadingMore /\ started' = started)]_vars

\* C4: the cursor never passes the end of the list, and a judgment on the
\* last available prompt made while a replenishment is in flight leaves the
\* cursor where it is.
C4_CursorInBounds ==
  /\ [](currentPromptIndex <= Len(gameState.availablePrompts))
  /\ [][(/\ Consumed
         /\ currentPromptIndex = Len(gameState.availablePrompts) - 1
         /\ InFlight >= 1)
          => currentPromptIndex' = currentPromptIndex]_vars

\* C4 witness: a prompt is displayed and more judgments were made on
\* displayed prompts than the cursor has advanced, so the cursor has held.
C4_Witness ==
  /\ Mounted
  /\ ~Exhausted
  /\ InFlight = 1
  /\ Len(accepted) > currentPromptIndex

\* C5: a judgment is accepted only while a current prompt is displayed: when
\* the supply is Exhausted a correct/incorrect action appends nothing to
\* results and nothing to usedPrompts, so every recorded result carries a
\* prompt taken from availablePrompts.
C5_NoJudgmentWhenExhausted ==
  /\ [][(Mounted /\ Mounted' /\ Exhausted)
          => (/\ results' = results
              /\ gameState'.usedPrompts = gameState.usedPrompts)]_vars
  /\ [](\A i \in 1..Len(results) :
          /\ results[i].prompt # Undefined
          /\ results[i].prompt \in Range(gameState.availablePrompts))

\* The phase changes of a round, with the return to the setup screen.
PhaseOrder ==
  {<<"Setup", "Countdown">>, <<"Countdown", "Running">>,
   <<"Running", "Ended">>, <<"Ended", "Setup">>}

\* C6: a judgment is recorded only while the round is Running (not during
\* the countdown, not after Ended), and the round passes through Countdown,
\* Running, Ended in that order only.
C6_JudgmentsOnlyWhileRunning ==
  [][/\ Len(results') > Len(results)
          => (Phase = "Running" /\ Phase' = "Running")
     /\ Phase' # Phase => <<Phase, Phase'>> \in PhaseOrder
     /\ (Phase = "Ended" /\ Phase' = "Ended") => finalResults' = finalResults
     /\ Phase' = "Countdown" => results' = <<>>]_vars

\* C6 witness: a round that recorded a judgment has reached Ended.
C6_Witness == Phase = "Ended" /\ Len(finalResults) >= 1

\* C7: with a generator that returns no excluded or queued string and an
\* initial queue without repeats, no prompt appears twice in the result list
\* and every judged prompt appears in usedPrompts exactly once.
C7_NoPromptTwice ==
  (Mounted /\ genHonest /\ NoRepeats(prompts))
    => /\ NoRepeats(RealPrompts(PromptsOf(results)))
       /\ NoRepeats(RealPrompts(gameState.usedPrompts))
       /\ Range(PromptsOf(results)) = Range(gameState.usedPrompts)

\* C8: the part of availablePrompts at or after the cursor never contains a
\* prompt that is already in usedPrompts (stated for a generator that repeats
\* nothing and an initial queue without repeats).
C8_UnseenNotUsed ==
  (Mounted /\ genHonest /\ NoRepeats(prompts))
    => \A i \in (currentPromptIndex + 1)..Len(gameState.availablePrompts) :
         gameState.availablePrompts[i] \notin Range(gameState.usedPrompts)

\* C9: the list emitted at Ended holds exactly one entry for each judgment
\* made on a displayed prompt, in the order submitted, none lost or stale; a
\* round without judgments emits the empty list.
C9_EmittedList == Phase = "Ended" => finalResults = accepted

\* C10: when the remaining time reaches zero the round moves to Ended and
\* onGameEnd is called with the result list exactly once per round.
C10_EmittedExactlyOnce ==
  /\ [](emitted <= 1)
  /\ []((round > 0 /\ timeLeft = 0) => (emitted = 1 /\ ~Mounted))
  /\ []((round > 0 /\ timeLeft > 0) => (emitted = 0 /\ Mounted))
  /\ [][(~Mounting /\ emitted' # emitted)
          => /\ timeLeft = 1
             /\ timeLeft' = 0
             /\ Phase = "Running"
             /\ Phase' = "Ended"
             /\ finalResults' = results]_vars

\* C10 witness: the clock has reached zero after the round recorded
\* judgments, and the list has been emitted.
C10_Witness ==
  /\ Phase = "Ended"
  /\ timeLeft = 0
  /\ emitted = 1
  /\ Len(finalResults) >= 2

\* duration * 60 of the round being played or just ended.
FullTime == (gameConfig[1].duration * 60) \div 2

StaleCount ==
  Len(SelectSeq(requests, LAMBDA r : ~(Mounted /\ r.epoch = round)))

\* C12: if the round reaches Ended (or is reset and a new round started)
\* while a replenishment is in flight, the late completion changes neither
\* the finalized result list nor the state of any later round.
C12_LateCompletionHarmless ==
  [][StaleCount' < StaleCount
       => UNCHANGED <<screen, isLoading, gameConfig, prompts, finalResults,
                      timeLeft, currentPromptIndex, results, gameState,
                      showCountdown, count>>]_vars

\* C12 witness: a request of an earlier round has completed while a later
\* round, which has recorded a judgment and has its own request in flight,
\* is being played.
C12_Witness ==
  /\ Mounted
  /\ round >= 2
  /\ lateDone >= 1
  /\ Len(results) >= 1
  /\ InFlight = 1

\* C13: a replenishment completion only appends: the prompts already in
\* availablePrompts keep their positions and order, new prompts go after all
\* of them, and the cursor, usedPrompts and the result list are left
\* unchanged by the completion.
C13_CompletionOnlyAppends ==
  [][CompletedNow
       => /\ Len(gameState'.availablePrompts)
               >= Len(gameState.availablePrompts)
          /\ SubSeq(gameState'.availablePrompts, 1,
                    Len(gameState.availablePrompts))
               = gameState.availablePrompts
          /\ currentPromptIndex' = currentPromptIndex
          /\ gameState'.usedPrompts = gameState.usedPrompts
          /\ results' = results]_vars

\* C13 witness: a completion has added prompts to a queue that was not
\* empty, in a round with a judgment recorded.
C13_Witness ==
  /\ Mounted
  /\ completed >= 1
  /\ failures = 0
  /\ Len(prompts) >= 1
  /\ Len(gameState.availablePrompts) > Len(prompts)
  /\ SubSeq(gameState.availablePrompts, 1, Len(prompts)) = prompts
  /\ Len(results) >= 1

\* The step is a judgment made on a displayed prompt.
Judged == Consumed /\ ~Exhausted

\* The cursor starts at the head of the queue, moves only forward and only
\* by one, only with a judgment that records the prompt it leaves, and
\* every prompt before it has been judged.
InQueueOrder ==
  /\ [][Mounting => currentPromptIndex' = 0]_vars
  /\ [][(Mounted /\ Mounted' /\ currentPromptIndex' # currentPromptIndex)
          => /\ currentPromptIndex' = currentPromptIndex + 1
             /\ Judged
             /\ results'[Len(results')].prompt
                  = gameState.availablePrompts[currentPromptIndex + 1]]_vars
  /\ [](Mounted
          => \A i \in 1..currentPromptIndex :
               /\ i <= Len(gameState.availablePrompts)
               /\ gameState.availablePrompts[i] \in Range(PromptsOf(accepted)))

\* C14 (as stated): prompts are presented in strict queue order with none
\* skipped, and each accepted judgment moves the cursor to the immediately
\* following prompt.
C14_EveryJudgmentAdvances ==
  /\ InQueueOrder
  /\ [][Judged => currentPromptIndex' = currentPromptIndex + 1]_vars

\* C14 (amended): prompts are presented in strict queue order with none
\* skipped, and each accepted judgment moves the cursor to the immediately
\* following prompt, except a judgment on the last available prompt made
\* while a replenishment is in flight, which leaves the cursor in place.
C14_QueueOrder ==
  /\ InQueueOrder
  /\ [][Judged
          => currentPromptIndex' =
               IF /\ currentPromptIndex = Len(gameState.availablePrompts) - 1
                  /\ InFlight >= 1
               THEN currentPromptIndex
               ELSE currentPromptIndex + 1]_vars

\* C14 witness: the cursor has held on a last prompt and has advanced past
\* it after the queue grew.
C14_Witness ==
  /\ Mounted
  /\ ~Exhausted
  /\ currentPromptIndex >= 1
  /\ Len(accepted) > currentPromptIndex
  /\ completed >= 1

\* The player has judged the last available prompt: the cursor is on it and
\* the last recorded result is the judgment of it.
LastPromptJudged ==
  /\ currentPromptIndex = Len(gameState.availablePrompts) - 1
  /\ NoRepeats(gameState.availablePrompts)
  /\ results # <<>>
  /\ results[Len(results)].prompt
       = gameState.availablePrompts[currentPromptIndex + 1]

\* C15: whenever the player has judged the last available prompt or the
\* supply is Exhausted, and a replenishment then completes with at least one
\* new prompt, the prompt presented next is the first newly appended one,
\* with no further player action (stated for a generator that repeats
\* nothing).
C15_ResumesWithNewPrompt ==
  [][(/\ CompletedNow
      /\ genHonest'
      /\ Len(gameState'.availablePrompts) > Len(gameState.availablePrompts)
      /\ (Exhausted \/ LastPromptJudged))
       => /\ currentPromptIndex' = Len(gameState.availablePrompts)
          /\ gameState'.availablePrompts[currentPromptIndex' + 1]
               \notin Range(PromptsOf(results'))]_vars

\* The prompts of a finished run of startGame, category by category.
Contributions ==
  LET RECURSIVE Concat(_)
      Concat(i) == IF i = 0 THEN <<>>
                   ELSE Concat(i - 1) \o startGameCall.asked[i].got
  IN Concat(Len(startGameCall.asked))

\* C16: if the generator call for a free-text category fails during setup,
\* that category contributes zero prompts and the round still starts
\* (screen moves to playing) with the prompts of the other selected
\* categories; startGame has then returned with isLoading cleared.
C16_FailureStillStarts ==
  (startGameCall.threw /\ ~startGameCall.running)
    => /\ ~isLoading
       /\ startGameCall.asked[Len(startGameCall.asked)].got = <<>>
       /\ screen = "playing"
       /\ Len(prompts) = Len(Contributions)
       /\ Range(prompts) = Range(Contributions)

\* The categories of the last run of startGame sampled while offline as
\* free-text categories.
OfflineCustom ==
  {i \in 1..Len(startGameCall.asked) :
     startGameCall.asked[i].id = "custom" /\ ~startGameCall.asked[i].online}

\* C17: when the network is unreachable, a free-text (custom) category
\* contributes exactly one sentinel informational prompt at setup, no
\* generator call is made for it, and the round still starts (a run in
\* which no generator call was made ends on the playing screen, with one
\* notice per free-text category in the round's prompts).
C17_OfflineSentinel ==
  /\ \A i \in OfflineCustom :
       /\ startGameCall.asked[i].via = "sentinel"
       /\ startGameCall.asked[i].got = <<OfflineNotice>>
  /\ \A i \in 1..Len(startGameCall.asked) :
       startGameCall.asked[i].via = "sentinel" => i \in OfflineCustom
  /\ (/\ startGameCall.asked # <<>>
      /\ \A i \in 1..Len(startGameCall.asked) :
           startGameCall.asked[i].via # "generator")
       => /\ ~startGameCall.running
          /\ ~startGameCall.threw
          /\ ~isLoading
          /\ screen = "playing"
          /\ Len(SelectSeq(prompts, LAMBDA x : x = OfflineNotice))
               = Cardinality(OfflineCustom)

\* C17 witness: a round has started offline with a free-text category and a
\* canned one; it holds the notice and the canned prompts.
C17_Witness ==
  /\ screen = "playing"
  /\ ~online
  /\ OfflineCustom # {}
  /\ OfflineNotice \in Range(prompts)
  /\ \E x \in Range(prompts) : x # OfflineNotice

\* The categories of the last run of startGame are all canned, with a pool
\* at least as large as the quota they were asked for.
PoolsSuffice ==
  \A i \in 1..Len(startGameCall.asked) :
    /\ startGameCall.asked[i].via = "pool"
    /\ PoolSize(startGameCall.asked[i].id) >= startGameCall.asked[i].quota

\* C18: at setup every sampled category is asked for ceil(50 / N) prompts
\* where N is the number of categories actually sampled, also when the single
\* "all categories" selection has been expanded to every canned category;
\* with pools at least as large as the quota the realized total is at least
\* 50 and less than 50 + N.
C18_EqualShare ==
  LET N == Len(startGameCall.categories)
  IN /\ \A i \in 1..Len(startGameCall.asked) :
          startGameCall.asked[i].via # "sentinel"
            => startGameCall.asked[i].quota = Ceil(TargetTotal, N)
     /\ (screen = "playing" /\ PoolsSuffice)
          => (Len(prompts) >= TargetTotal /\ Len(prompts) < TargetTotal + N)

\* A selection is non-empty and holds "misc" only alone.
ValidSelection(selection) ==
  /\ selection # {}
  /\ selection \subseteq Range(ALL_CATEGORIES)
  /\ "misc" \in selection => selection = {"misc"}

\* C19: after any sequence of category clicks (text or checkbox, on any
\* category) starting from the initial selection {misc}, the selection is
\* non-empty and "misc" is never selected together with another category:
\* clicking misc yields exactly {misc}, and selecting any other category
\* removes misc.
C19_SelectionExclusive ==
  /\ ValidSelection(selectedCategories)
  /\ \A categoryId \in Range(ALL_CATEGORIES), isCheckbox \in BOOLEAN :
       LET newSelection ==
             handleCategoryClick(selectedCategories, categoryId, isCheckbox)
       IN /\ ValidSelection(newSelection)
          /\ categoryId = "misc" => newSelection = {"misc"}
          /\ categoryId # "misc" => "misc" \notin newSelection
          /\ (categoryId # "misc" /\ categoryId \notin selectedCategories)
               => categoryId \in newSelection

\* C19 witness: after clicks that left "misc", several categories are
\* selected together.
C19_Witness ==
  /\ screen = "setup"
  /\ Cardinality(selectedCategories) >= 3
  /\ "misc" \notin selectedCategories

\* The number of times x occurs in s.
Occurrences(s, x) == Cardinality({i \in 1..Len(s) : s[i] = x})

\* The orderings of the items of s.
Orderings(s) ==
  {p \in [1..Len(s) -> Range(s)] :
     \A x \in Range(s) : Occurrences(p, x) = Occurrences(s, x)}

\* C20: shuffleArray is a fair shuffle: for every input list it returns a
\* list of the same length holding the same items with the same
\* multiplicities, leaves its input unmodified, and for N distinct items
\* each of the N! orderings is produced by exactly one sequence of random
\* index draws.
C20_FairShuffle ==
  shuffleCall.done
    => /\ Len(shuffleCall.shuffled) = Len(shuffleCall.given)
       /\ \A x \in Range(shuffleCall.given) \cup Range(shuffleCall.shuffled) :
            Occurrences(shuffleCall.shuffled, x)
              = Occurrences(shuffleCall.given, x)
       /\ shuffleCall.array = shuffleCall.given
       /\ NoRepeats(shuffleCall.given)
            => \A p \in Orderings(shuffleCall.given) :
                 Cardinality({d \in Draws(Len(shuffleCall.given)) :
                                shuffleArray(shuffleCall.given, d) = p}) = 1

\* C20 witness: a call on distinct items has returned them in another
\* order.
C20_Witness ==
  /\ shuffleCall.done
  /\ Len(shuffleCall.given) = MaxShuffleLen
  /\ NoRepeats(shuffleCall.given)
  /\ shuffleCall.shuffled # shuffleCall.given
  /\ shuffleCall.array = shuffleCall.given

\* C21: every replenishment request asks for 60 items for the template of
\* the round's single active category (the first category of the round
\* configuration) and carries as exclusion list the full used sequence as it
\* stands when the request is started, i.e. every prompt judged so far in
\* the round, none missing.
C21_RequestContent ==
  [][StartedNow
       => /\ requestSent'.count = 60
          /\ requestSent'.category = gameConfig'[1].categories[1].prompt
          /\ exclusionsSent' = gameState'.usedPrompts
          /\ exclusionsSent' = PromptsOf(results')]_vars

\* C21 witness: in a round of two categories a request is outstanding that
\* was started after judgments and carries them as exclusions; it names
\* the first category's template, which is not the second's.
C21_Witness ==
  /\ Mounted
  /\ Len(gameConfig[1].categories) = 2
  /\ gameConfig[1].categories[1].prompt # gameConfig[1].categories[2].prompt
  /\ InFlight = 1
  /\ requestSent.category = gameConfig[1].categories[1].prompt
  /\ requestSent.count = 60
  /\ Len(exclusionsSent) >= 2
  /\ exclusionsSent = PromptsOf(results)

\* A round for as long as its clock has not run out: every action but the
\* timer callback.
FetchNext ==
  \/ StartGameBegin
  \/ StartGameDone
  \/ StartGameFail
  \/ CountdownTick
  \/ HandleResult
  \/ FetchDone
  \/ FetchFail

\* An awaited generator call settles: the client resolves or rejects it
\* (it times out a call that gets no answer), so the continuation of a
\* fetchMorePrompts that is waiting runs at some time.
FetchSpec ==
  Init /\ [][FetchNext]_vars /\ WF_vars(FetchDone \/ FetchFail)

\* C22: every replenishment that is started eventually clears the in-flight
\* flag, on success and on failure alike (in a round whose clock does not
\* run out first the n-th completion comes, and it clears the flag unless
\* it starts the next request at once), and after it is cleared a later
\* trigger check with the low-water condition holding can start a new
\* request; the flag is never left set with no request outstanding.
C22_FlagEventuallyClears ==
  /\ [](Mounted => (gameState.isLoadingMore <=> InFlight = 1))
  /\ [][CompletedNow
          => (~gameState'.isLoadingMore \/ started' = started + 1)]_vars
  /\ [][(Consumed /\ ~gameState.isLoadingMore /\ Remainder' <= LowWater)
          => (StartedNow /\ gameState'.isLoadingMore)]_vars
  /\ \A n \in 0..(MaxFetches - 1) :
       (Mounted /\ gameState.isLoadingMore /\ completed = n)
         ~> (Mounted /\ completed > n)

\* C22 witness: a request completed and left the flag cleared with 11
\* prompts remaining, and the judgment that brought the remainder to the
\* low-water mark has started the round's second request.
C22_Witness ==
  /\ Mounted
  /\ completed = 1
  /\ started = 2
  /\ InFlight = 1
  /\ gameState.isLoadingMore
  /\ Len(gameState.availablePrompts) = Len(prompts) + 1
  /\ Remainder = LowWater
  /\ exclusionsSent = PromptsOf(results)
  /\ Len(results) >= 3

\* ============================================================ the round in time
\* 500 ms pass without an event.  The interval's callback runs when it is
\* due, so time does not pass beyond that point.
Elapse ==
  /\ screen = "playing"
  /\ ~showCountdown
  /\ intervalAge < TickPeriod
  /\ sinceTick < MaxElapsed
  /\ intervalAge' = intervalAge + 1
  /\ sinceTick' = sinceTick + 1
  /\ UNCHANGED <<appVars, gameVars, requests, exclusionsSent, requestSent,
                 histVars, setupVars, shuffleCall>>

\* The timeout of the Countdown effect; the render with showCountdown false
\* runs the timer effect, which creates the interval.
TimedCountdownTick ==
  /\ CountdownTickStep
  /\ intervalAge' = 0
  /\ sinceTick' = 0

\* handleResult replaces results, a dependency of the timer effect: its
\* cleanup clears the interval and the effect creates a new one, due 1000 ms
\* after the judgment.
TimedHandleResult ==
  /\ HandleResultStep
  /\ intervalAge' = 0
  /\ UNCHANGED sinceTick

\* The interval's callback runs 1000 ms after the interval was created or
\* last fired.
TimedTimerTick ==
  /\ intervalAge = TickPeriod
  /\ TimerTickStep
  /\ intervalAge' = 0
  /\ sinceTick' = 0

TimedNext ==
  \/ StartGameBegin
  \/ StartGameDone
  \/ StartGameFail
  \/ TimedCountdownTick
  \/ TimedHandleResult
  \/ Elapse
  \/ TimedTimerTick
  \/ FetchDone
  \/ FetchFail
  \/ ResetGame

TimedSpec == Init /\ [][TimedNext]_vars

\* C23: submitting a judgment leaves the remaining time and the pending
\* one-second clock tick unaffected: the next tick still fires one second
\* after the previous one (or after the start of the clock), so a player who
\* submits judgments arbitrarily often cannot postpone the clock or the
\* transition to Ended.
C23_JudgmentsDoNotPostponeClock ==
  /\ [][Judged
          => (timeLeft' = timeLeft /\ intervalAge' = intervalAge)]_vars
  /\ [][ticks' = ticks + 1 => sinceTick = TickPeriod]_vars
  /\ [](Phase = "Running" => sinceTick <= TickPeriod)

\* C24: in every reachable state of a round, usedPrompts is exactly the
\* sequence of prompt strings of the result list, same length and same
\* order: each judgment appends the same prompt to both and nothing else
\* ever changes either of them (so both lists, the entries recorded with
\* no prompt displayed aside, are the prompts of the judgments made, in
\* the order made).
C24_UsedMirrorsResults ==
  Mounted
    => /\ gameState.usedPrompts = PromptsOf(results)
       /\ RealPrompts(gameState.usedPrompts) = PromptsOf(accepted)

\* C24 witness: the same prompt was judged twice while the cursor held, a
\* replenishment has completed, and both lists hold the prompt twice.
C24_Witness ==
  /\ Mounted
  /\ completed >= 1
  /\ Len(results) >= 2
  /\ results[1].prompt = results[2].prompt
  /\ results[1].prompt # Undefined
  /\ currentPromptIndex = 0
  /\ gameState.usedPrompts = PromptsOf(results)

\* ======================================================= the screens of App
\* The events that change what App holds: those of the setup screen with
\* the run of startGame, the countdown, the timer callback and Play Again.
AppNext ==
  \/ CategoryClick
  \/ CustomCategoryInput
  \/ NetworkChange
  \/ HandleStartGame
  \/ GeneratorReturns
  \/ GeneratorThrows
  \/ CountdownTick
  \/ TimerTick
  \/ ResetGame

AppSpec == Init /\ [][AppNext]_vars

\* C25: the application screen moves only setup -> playing -> end -> setup;
\* playing is entered only by a startGame that completed without error and
\* with a round configuration set; at most one startGame is in progress at
\* a time (Start is disabled while loading: a run begins only when none is
\* in progress); and the loading flag is cleared when startGame finishes,
\* whether it succeeded or failed.
C25_ScreenFlow ==
  /\ [][screen' # screen
          => <<screen, screen'>> \in {<<"setup", "playing">>,
                                      <<"playing", "end">>,
                                      <<"end", "setup">>}]_vars
  /\ [][(screen # "playing" /\ screen' = "playing")
          => /\ HandleStartGame \/ GeneratorReturns
             /\ ~startGameCall'.running
             /\ ~startGameCall'.threw
             /\ startGameCall'.next = 0
             /\ gameConfig' # <<>>]_vars
  /\ [](screen = "playing" => gameConfig # <<>>)
  /\ [](startGameCall.running <=> isLoading)
  /\ [](startGameCall.running => StartDisabled)
  /\ [][startGameCall.running => ~HandleStartGame]_vars
  /\ [][(startGameCall.running /\ ~startGameCall'.running)
          => (GeneratorReturns \/ GeneratorThrows) /\ ~isLoading']_vars

\* C25 witness: a second round is being played; its startGame awaited the
\* generator before it completed.
C25_Witness ==
  /\ screen = "playing"
  /\ round = 2
  /\ ~isLoading
  /\ ~startGameCall.running
  /\ \E i \in 1..Len(startGameCall.asked) :
       startGameCall.asked[i].via = "generator"

====
